---- MODULE Spec2Model ----
(***************************************************************************)
(* Model of the cafe POS + KDS backend (src/main.py, src/schemas.py).      *)
(*                                                                         *)
(* The document store holds one collection per model class.  A collection  *)
(* is a sequence of documents; the identifier of a document is its index   *)
(* in the sequence (identifiers are assigned by the store on insert and    *)
(* documents are never deleted).  Identifiers in requests are integers:    *)
(*   NoId   the field is null / empty (falsy in Python),                   *)
(*   BadId  a string that bson.ObjectId rejects,                           *)
(*   n > 0  a well-formed identifier; it names a document of collection c  *)
(*          iff n <= Len(c).                                               *)
(* An amount of money is a decimal with two places in a request and a      *)
(* float in the store; the model keeps both as the number of hundredths,    *)
(* a tax rate as the number of ten-thousandths.  create_order computes     *)
(* with the floats: its products, sums and round() are the binary64 ones   *)
(* (section "floating point"), so that the tax on 0.50 at 0.05 is 0.03,    *)
(* the float 0.5 * 0.05 being a little more than 0.025.                    *)
(* Fields that no handler reads back (names, notes, amount, method,        *)
(* started_at, created_at/updated_at) are not stored.                      *)
(* The auditlog collection is written and never read: audited holds the    *)
(* entries the last request appended to it, audit_up[k] whether the store  *)
(* accepts the k-th audit write of the step taken next.                    *)
(* A record constructor lists its fields in the order in which the field   *)
(* names first occur in this module, and a set of strings its elements     *)
(* likewise: that is the order of TLC's normal form, so every constant     *)
(* record or set is in normal form as written and the workers of a         *)
(* multi-threaded run never reorder a value they share.                    *)
(***************************************************************************)
EXTENDS Integers, Sequences, FiniteSets, TLC

\* ---------------------------------------------------------------- bounds
MaxStations == 1
MaxSessions == 2
MaxMenuItems == 2
MaxOrders == 2
MaxPayments == 2
MaxLines == 2

\* ---------------------------------------------------------------- domains
NoId == 0
BadId == 0 - 1

StationStatuses == {"available", "in-use", "offline", "maintenance"}
OrderStatuses == {"pending", "preparing", "ready", "served", "canceled"}

Cafes == {"c1", "c2"}
Keys == {"k1", "k2"}
\* menu prices, in hundredths (0.50, 50.00 and 100.00)
Prices == {50, 5000, 10000}
\* a tax rate r is stored as r * RateScale
RateScale == 100 * 100
\* Settings(...tax_rate=0.05...) of get_settings
DefaultTaxRate == 500
\* {"tax_rate": 0.0} of create_order
OrderTimeTaxRate == 0
Qtys == {0, 1, 2}
\* bodies of POST /settings (currency, tax_rate, service_charge_rate)
SettingsBodies ==
    { [currency |-> "INR", tax_rate |-> 500, service_charge_rate |-> 0],
      [currency |-> "USD", tax_rate |-> 625, service_charge_rate |-> 1000] }
\* references a client stores verbatim on an order or a new station
Refs == {NoId, 1}
\* the audit writes one request makes at most: the three of checkout
AuditWrites == 3

VARIABLES station, session, menuitem, order, payment, settings, user,
          resp, audited, audit_up, proc

vars == <<station, session, menuitem, order, payment, settings, user,
          resp, audited, audit_up, proc>>

\* the collections the handlers read
store == <<station, session, menuitem, order, payment, settings, user>>

\* ---------------------------------------------------------------- helpers
\* oid(id_str) raises 400 "Invalid ID" unless ObjectId accepts the string
OidOk(id) == id > 0

\* db.<collection>.find_one({"_id": oid(id)}) finds a document
Found(coll, id) == OidOk(id) /\ id <= Len(coll)

\* create_document(collection, doc): insert, the new identifier is returned
CreateDocument(coll, doc) == Append(coll, doc)

NewId(coll) == Len(coll) + 1

\* db.<collection>.update_one({"_id": id}, {"$set": fields}); no match, no change
UpdateOne(coll, id, fields) ==
    IF id \in DOMAIN coll
    THEN [coll EXCEPT ![id] = [f \in DOMAIN coll[id] |->
             IF f \in DOMAIN fields THEN fields[f] ELSE coll[id][f]]]
    ELSE coll

\* the least element of a non-empty set of identifiers (find_one returns the
\* first match in insertion order)
First(S) == CHOOSE x \in S : \A y \in S : x <= y

\* a completed request: the handler, its request body, the HTTP status and the
\* JSON body of the response
Response(op, req, code, body) == [op |-> op, req |-> req, code |-> code, body |-> body]

\* raise HTTPException(code, detail)
Error(op, req, code, detail) == Response(op, req, code, [detail |-> detail])

Ok == [ok |-> TRUE]

\* audit(action, table, record_id, ...): create_document("auditlog", ...)
\* appends AuditLog(action=..., table=..., record_id=...), or raises and the
\* exception is discarded, for the k-th audit write of the step
audit(log, k, action, table, record_id) ==
    IF audit_up[k]
    THEN Append(log, [action |-> action, table |-> table, record_id |-> record_id])
    ELSE log

\* audit() without its except clause: a failed write reaches the client
Swallowed_Reraised(r, n) ==
    IF \A k \in 1 .. n : audit_up[k] THEN r
    ELSE [r EXCEPT !.code = 500, !.body = [detail |-> "Internal Server Error"]]

\* "except Exception: pass": the handler that made n audit writes goes on to
\* the response r it was about to give
Swallowed(r, n) == r

\* the requests in flight when handlers interleave
Procs == {1, 2}

\* a handler's frame: its position, its request, the identifier it got from
\* create_document (new), the station_id of the session document it read
\* (snap) and its response.  raced is history: the requests that had passed
\* the gate of start_session on the same station, and not yet written, when
\* this one wrote the station; audits is what the request has appended to the
\* auditlog.  Of create_order the frame holds the lines priced so far, each
\* <<unit_price, qty>> (priced), and the tax rate of the settings it read
\* (rate).
Idle == [req |-> [op |-> "none"], code |-> 0, body |-> [x |-> 0],
         pc |-> "idle", new |-> NoId, snap |-> NoId, raced |-> {},
         audits |-> <<>>, priced |-> <<>>, rate |-> 0]

\* ---------------------------------------------------------------- initial state
\* The store is empty: main.py writes nothing when it is imported.
Init ==
    /\ station = <<>>
    /\ session = <<>>
    /\ menuitem = <<>>
    /\ order = <<>>
    /\ payment = <<>>
    /\ settings = <<>>
    /\ user = <<>>
    /\ audited = <<>>
    /\ audit_up = [k \in 1 .. AuditWrites |-> TRUE]
    /\ resp = Response("none", [x |-> 0], 0, [x |-> 0])
    /\ proc = [p \in Procs |-> Idle]

\* ---------------------------------------------------------------- users
\* db.user.find_one({"email": email})
UserOf(email) == {i \in DOMAIN user : user[i].email = email}

\* POST /auth/register
register(email) ==
    LET op == "register"
        req == [email |-> email] IN
    /\ IF UserOf(email) # {}
       THEN /\ resp' = Error(op, req, 400, "Email already registered")
            /\ audited' = <<>>
            /\ UNCHANGED user
       ELSE /\ user' = CreateDocument(user, [email |-> email,
                                             is_active |-> TRUE])
            /\ audited' = audit(<<>>, 1, "create", "user", NewId(user))
            /\ resp' = Swallowed(Response(op, req, 200, [user_id |-> NewId(user)]), 1)
    /\ UNCHANGED <<station, session, menuitem, order, payment, settings, audit_up, proc>>

\* ---------------------------------------------------------------- audit store
\* create_document("auditlog", ...) starts or stops raising on the k-th call
\* of a step
AuditStoreFlips ==
    /\ \E k \in 1 .. AuditWrites : audit_up' = [audit_up EXCEPT ![k] = ~@]
    /\ UNCHANGED <<store, resp, audited, proc>>

\* ---------------------------------------------------------------- stations
\* POST /stations
create_station(status, cur) ==
    LET req == [status |-> status, current_session_id |-> cur] IN
    /\ Len(station) < MaxStations
    /\ station' = CreateDocument(station, [status |-> status, current_session_id |-> cur])
    /\ audited' = audit(<<>>, 1, "create", "station", NewId(station))
    /\ resp' = Swallowed(Response("create_station", req, 200,
                                  [station_id |-> NewId(station)]), 1)
    /\ UNCHANGED <<session, menuitem, order, payment, settings, user, audit_up, proc>>

\* POST /stations/status
update_station_status(station_id, status) ==
    LET op == "update_station_status"
        req == [status |-> status, station_id |-> station_id] IN
    /\ IF ~OidOk(station_id)
       THEN /\ resp' = Error(op, req, 400, "Invalid ID")
            /\ audited' = <<>>
            /\ UNCHANGED station
       ELSE IF ~Found(station, station_id)
       THEN /\ resp' = Error(op, req, 404, "Station not found")
            /\ audited' = <<>>
            /\ UNCHANGED station
       ELSE /\ station' = UpdateOne(station, station_id, [status |-> status])
            /\ audited' = audit(<<>>, 1, "update", "station", station_id)
            /\ resp' = Swallowed(Response(op, req, 200, Ok), 1)
    /\ UNCHANGED <<session, menuitem, order, payment, settings, user, audit_up, proc>>

\* ---------------------------------------------------------------- sessions
\* a gate that lets only available stations through
InUse_OrDown(st) == st.status # "available"

\* the gate of start_session: st.get("status") == "in-use"
InUse(st) == st.status = "in-use"

\* end_session without its early return
AlreadyEnded_Never(sess) == FALSE

\* the gate of end_session: sess.get("status") == "ended"
AlreadyEnded(sess) == sess.status = "ended"

\* start_session writing the status alone
OccupyStation_StatusOnly(stations, station_id, sid) ==
    UpdateOne(stations, station_id, [status |-> "in-use"])

\* the station write of start_session
OccupyStation(stations, station_id, sid) ==
    UpdateOne(stations, station_id, [status |-> "in-use", current_session_id |-> sid])

\* the station write of end_session and checkout
FreeStation(stations, station_id) ==
    UpdateOne(stations, station_id, [status |-> "available", current_session_id |-> NoId])

\* a write that resumes a session found ended
MarkEnded_Toggle(sessions, session_id, now) ==
    IF sessions[session_id].status = "ended"
    THEN UpdateOne(sessions, session_id, [status |-> "active"])
    ELSE UpdateOne(sessions, session_id, [status |-> "ended", ended_at |-> now])

\* the session write of end_session and checkout
MarkEnded(sessions, session_id, now) ==
    UpdateOne(sessions, session_id, [status |-> "ended", ended_at |-> now])

\* a session created with another status
NewSession_Paused(station_id) ==
    [status |-> "paused", station_id |-> station_id, ended_at |-> NoId]

\* Session(station_id=req.station_id, status="active", ...)
NewSession(station_id) ==
    [status |-> "active", station_id |-> station_id, ended_at |-> NoId]

\* POST /sessions/start
start_session(station_id) ==
    LET op == "start_session"
        req == [station_id |-> station_id] IN
    /\ IF ~OidOk(station_id)
       THEN /\ resp' = Error(op, req, 400, "Invalid ID")
            /\ audited' = <<>>
            /\ UNCHANGED <<station, session>>
       ELSE IF ~Found(station, station_id)
       THEN /\ resp' = Error(op, req, 404, "Station not found")
            /\ audited' = <<>>
            /\ UNCHANGED <<station, session>>
       ELSE IF InUse(station[station_id])
       THEN /\ resp' = Error(op, req, 409, "Station already in use")
            /\ audited' = <<>>
            /\ UNCHANGED <<station, session>>
       ELSE /\ Len(session) < MaxSessions
            /\ session' = CreateDocument(session, NewSession(station_id))
            /\ station' = OccupyStation(station, station_id, NewId(session))
            /\ audited' = audit(<<>>, 1, "create", "session", NewId(session))
            /\ resp' = Swallowed(Response(op, req, 200, [session_id |-> NewId(session)]), 1)
    /\ UNCHANGED <<menuitem, order, payment, settings, user, audit_up, proc>>

\* POST /sessions/end
end_session(session_id, now) ==
    LET op == "end_session"
        req == [session_id |-> session_id] IN
    /\ IF ~OidOk(session_id)
       THEN /\ resp' = Error(op, req, 400, "Invalid ID")
            /\ audited' = <<>>
            /\ UNCHANGED <<station, session>>
       ELSE IF ~Found(session, session_id)
       THEN /\ resp' = Error(op, req, 404, "Session not found")
            /\ audited' = <<>>
            /\ UNCHANGED <<station, session>>
       ELSE IF AlreadyEnded(session[session_id])
       THEN /\ resp' = Response(op, req, 200, Ok)
            /\ audited' = <<>>
            /\ UNCHANGED <<station, session>>
       ELSE /\ session' = MarkEnded(session, session_id, now)
            /\ station' = FreeStation(station, session[session_id].station_id)
            /\ audited' = audit(<<>>, 1, "update", "session", session_id)
            /\ resp' = Swallowed(Response(op, req, 200, Ok), 1)
    /\ UNCHANGED <<menuitem, order, payment, settings, user, audit_up, proc>>

\* ---------------------------------------------------------------- menu
\* POST /menu
create_menu_item(price) ==
    /\ Len(menuitem) < MaxMenuItems
    /\ menuitem' = CreateDocument(menuitem, [is_active |-> TRUE, price |-> price])
    /\ audited' = audit(<<>>, 1, "create", "menuitem", NewId(menuitem))
    /\ resp' = Swallowed(Response("create_menu_item", [price |-> price], 200,
                                  [menu_item_id |-> NewId(menuitem)]), 1)
    /\ UNCHANGED <<station, session, order, payment, settings, user, audit_up, proc>>

\* ---------------------------------------------------------------- floating point
\* Python's float is IEEE 754 binary64.  A natural number of any size is the
\* sequence of its digits in base Limb, least significant first, without a
\* leading zero; a float x >= 0 is a pair <<m, e>> that stands for m / 2^e.
Limb == 32768
LimbBits == 15
\* the bits of the significand of a binary64
Precision == 53
\* the fraction bits a decimal is expanded to before it is rounded to a float
Guard == 75

RECURSIVE Big(_)
Big(n) == IF n = 0 THEN <<>> ELSE <<n % Limb>> \o Big(n \div Limb)

\* the value of a, for an a that fits an integer
RECURSIVE Small(_)
Small(a) == IF a = <<>> THEN 0 ELSE Head(a) + Limb * Small(Tail(a))

Rest(a) == IF a = <<>> THEN <<>> ELSE Tail(a)

Digit(a) == IF a = <<>> THEN 0 ELSE Head(a)

\* the number with least digit d and the other digits a
Cons(d, a) == IF d = 0 /\ a = <<>> THEN <<>> ELSE <<d>> \o a

RECURSIVE BigAddC(_, _, _)
BigAddC(a, b, c) ==
    IF a = <<>> /\ b = <<>> THEN Big(c)
    ELSE LET x == Digit(a) + Digit(b) + c
         IN  Cons(x % Limb, BigAddC(Rest(a), Rest(b), x \div Limb))

BigAdd(a, b) == BigAddC(a, b, 0)

\* a * m + c for a digit m
RECURSIVE BigMulDigit(_, _, _)
BigMulDigit(a, m, c) ==
    IF a = <<>> THEN Big(c)
    ELSE LET x == Head(a) * m + c
         IN  Cons(x % Limb, BigMulDigit(Tail(a), m, x \div Limb))

RECURSIVE BigMul(_, _)
BigMul(a, b) ==
    IF b = <<>> THEN <<>>
    ELSE BigAdd(BigMulDigit(a, Head(b), 0), Cons(0, BigMul(a, Tail(b))))

\* <<a \div d, a % d>> for 0 < d < Limb
RECURSIVE DivRem(_, _)
DivRem(a, d) ==
    IF a = <<>> THEN <<<<>>, 0>>
    ELSE LET hi == DivRem(Tail(a), d)
             x == hi[2] * Limb + Head(a)
         IN  <<Cons(x \div d, hi[1]), x % d>>

RECURSIVE Bits(_)
Bits(n) == IF n = 0 THEN 0 ELSE 1 + Bits(n \div 2)

BitLen(a) == IF a = <<>> THEN 0 ELSE LimbBits * (Len(a) - 1) + Bits(a[Len(a)])

Pow2(k) == [i \in 1 .. k \div LimbBits |-> 0] \o <<2 ^ (k % LimbBits)>>

ShiftLeft(a, k) == BigMul(a, Pow2(k))

\* a \div 2^k
ShiftRight(a, k) ==
    LET n == k \div LimbBits IN
    IF n >= Len(a) THEN <<>>
    ELSE DivRem(SubSeq(a, n + 1, Len(a)), 2 ^ (k % LimbBits))[1]

RECURSIVE Trim(_)
Trim(a) ==
    IF a = <<>> THEN <<>>
    ELSE IF a[Len(a)] = 0 THEN Trim(SubSeq(a, 1, Len(a) - 1)) ELSE a

\* a % 2^k
Low(a, k) ==
    LET n == k \div LimbBits IN
    IF n >= Len(a) THEN a
    ELSE Trim(SubSeq(a, 1, n) \o <<a[n + 1] % (2 ^ (k % LimbBits))>>)

\* -1, 0 or 1 as a < b, a = b or a > b
RECURSIVE Cmp(_, _)
Cmp(a, b) ==
    IF Len(a) # Len(b) THEN (IF Len(a) < Len(b) THEN 0 - 1 ELSE 1)
    ELSE IF a = <<>> THEN 0
    ELSE IF a[Len(a)] # b[Len(b)] THEN (IF a[Len(a)] < b[Len(b)] THEN 0 - 1 ELSE 1)
    ELSE Cmp(SubSeq(a, 1, Len(a) - 1), SubSeq(b, 1, Len(b) - 1))

\* a / 2^k to the nearest integer, for k > 0; a half goes to the even
\* neighbour when toEven, else up; inexact: a stands for a little more than a
Rounded(a, k, inexact, toEven) ==
    LET q == ShiftRight(a, k)
        c == Cmp(Low(a, k), Pow2(k - 1))
        up == c > 0 \/ (c = 0 /\ (inexact \/ ~toEven \/ Digit(q) % 2 = 1))
    IN  IF up THEN BigAdd(q, <<1>>) ELSE q

\* the float nearest to a / 2^e
Nearest(a, e, inexact) ==
    LET s == BitLen(a) - Precision IN
    IF s <= 0 THEN <<a, e>> ELSE <<Rounded(a, s, inexact, TRUE), e - s>>

\* the float of the decimal n / d, for 0 < d < Limb: float(...) of a JSON number
FloatOf(n, d) ==
    LET qr == DivRem(ShiftLeft(Big(n), Guard), d)
    IN  Nearest(qr[1], Guard, qr[2] # 0)

\* x * y
FloatMul(x, y) == Nearest(BigMul(x[1], y[1]), x[2] + y[2], FALSE)

\* x + y
FloatAdd(x, y) ==
    LET e == IF x[2] > y[2] THEN x[2] ELSE y[2]
    IN  Nearest(BigAdd(ShiftLeft(x[1], e - x[2]), ShiftLeft(y[1], e - y[2])), e, FALSE)

\* a round() that rounds a half up
round_HalfUp(x, ndigits) ==
    IF x[2] = 0 THEN Small(BigMul(x[1], Big(10 ^ ndigits)))
    ELSE Small(Rounded(BigMul(x[1], Big(10 ^ ndigits)), x[2], FALSE, FALSE))

\* round(x, ndigits), in units of 10^-ndigits: the decimal nearest to the
\* float x, a half to the even neighbour
round(x, ndigits) ==
    IF x[2] = 0 THEN Small(BigMul(x[1], Big(10 ^ ndigits)))
    ELSE Small(Rounded(BigMul(x[1], Big(10 ^ ndigits)), x[2], FALSE, TRUE))

\* ---------------------------------------------------------------- orders
\* int(it.get("qty", 1))
QtyOf(it) == IF "qty" \in DOMAIN it THEN it.qty ELSE 1

\* a line that raises nothing
NoError == [raised |-> FALSE]

\* f"Invalid menu item: {it['item_id']}": the text, then the id as it was sent
InvalidMenuItem(item_id) == [detail |-> <<"Invalid menu item: ", item_id>>]

\* the quantity check as qty < 0
LineCheck_ZeroQty(docs, it) ==
    IF docs = {} \/ \E d \in docs : ~d.is_active THEN InvalidMenuItem(it.item_id)
    ELSE IF QtyOf(it) < 0 THEN [detail |-> "Invalid quantity"]
    ELSE NoError

\* the two checks on a requested line once find_one has answered with docs
LineCheck(docs, it) ==
    IF docs = {} \/ \E d \in docs : ~d.is_active THEN InvalidMenuItem(it.item_id)
    ELSE IF QtyOf(it) <= 0 THEN [detail |-> "Invalid quantity"]
    ELSE NoError

\* the body of the HTTPException one requested line raises, NoError if none:
\* oid(...), then item_doc = db.menuitem.find_one(...), which answers with no
\* document or one, then the checks
LineError(it) ==
    IF ~OidOk(it.item_id) THEN [detail |-> "Invalid ID"]
    ELSE LineCheck(IF Found(menuitem, it.item_id) THEN {menuitem[it.item_id]}
                   ELSE {}, it)

\* e is the body of an HTTPException
Raises(e) == "detail" \in DOMAIN e

\* the loop over req.items stops at the first line that raises
RECURSIVE FirstError(_)
FirstError(items) ==
    IF items = <<>> THEN NoError
    ELSE IF Raises(LineError(Head(items))) THEN LineError(Head(items))
    ELSE FirstError(Tail(items))

\* OrderItem(...) of the requested line it, priced as l = <<unit_price, qty>>
\* from the menu item that was read, line_total given in hundredths
OrderItemOf(it, l, line_total) ==
    [qty |-> l[2], item_id |-> it.item_id,
     unit_price |-> l[1], total_price |-> line_total]

\* what create_order prices: <<price of the menu item, qty>> of every
\* requested line
RECURSIVE PricedLines(_)
PricedLines(items) ==
    IF items = <<>> THEN <<>>
    ELSE <<<<menuitem[Head(items).item_id].price, QtyOf(Head(items))>>>>
         \o PricedLines(Tail(items))

\* line_total = unit_price * qty with unit_price = float(item_doc["price"]),
\* for the line l = <<price, qty>>
LineTotal(l) == FloatMul(FloatOf(l[1], 100), FloatOf(l[2], 1))

\* subtotal = 0.0, then subtotal += line_total line by line
RECURSIVE FloatSubtotal(_)
FloatSubtotal(pq) ==
    IF pq = <<>> THEN FloatOf(0, 1)
    ELSE FloatAdd(FloatSubtotal(SubSeq(pq, 1, Len(pq) - 1)), LineTotal(pq[Len(pq)]))

\* the total_price of every line, in hundredths
RECURSIVE LineTotals(_)
LineTotals(pq) ==
    IF pq = <<>> THEN <<>>
    ELSE <<round(LineTotal(Head(pq)), 2)>> \o LineTotals(Tail(pq))

\* a lookup that never finds the stored settings
SettingsOf_None(cafe_id) == {}

\* db.settings.find_one({"cafe_id": cafe_id})
SettingsOf(cafe_id) == {i \in DOMAIN settings : settings[i].cafe_id = cafe_id}

\* create_order falling back on the default of get_settings
OrderTaxRate_Default(cafe_id) ==
    IF SettingsOf(cafe_id) = {} THEN DefaultTaxRate
    ELSE settings[First(SettingsOf(cafe_id))].tax_rate

\* float(settings.get("tax_rate", 0.0)) of create_order
OrderTaxRate(cafe_id) ==
    IF SettingsOf(cafe_id) = {} THEN OrderTimeTaxRate
    ELSE settings[First(SettingsOf(cafe_id))].tax_rate

\* tax = round(subtotal * float(settings.get("tax_rate", 0.0)), 2), in
\* hundredths, for the float subtotal
TaxOf(subtotal, rate) == round(FloatMul(subtotal, FloatOf(rate, RateScale)), 2)

\* total = round(subtotal + tax, 2), in hundredths, for the float subtotal and
\* the tax in hundredths
TotalOf(subtotal, tax) == round(FloatAdd(subtotal, FloatOf(tax, 100)), 2)

\* the amounts create_order stores for the lines pq at the tax rate, in
\* hundredths
Pricing(pq, rate) ==
    LET subtotal == FloatSubtotal(pq)
        tax == TaxOf(subtotal, rate)
    IN  [subtotal |-> round(subtotal, 2), tax |-> tax,
         total |-> TotalOf(subtotal, tax), totals |-> LineTotals(pq)]

\* the priced lines <<price, qty>> of the requests of the specifications, in
\* lists of at most n
RECURSIVE PriceableLists(_)
PriceableLists(n) ==
    IF n = 0 THEN {<<>>}
    ELSE PriceableLists(n - 1) \cup
         {Append(l, it) : l \in {x \in PriceableLists(n - 1) : Len(x) = n - 1},
                          it \in Prices \X {q \in Qtys : q > 0}}

\* Pricing of each of them at each rate of the specifications, evaluated once
\* (@@ makes the function the table of its values)
Priced ==
    [k \in PriceableLists(MaxLines) \X
            ({OrderTimeTaxRate, DefaultTaxRate} \cup
             {b.tax_rate : b \in SettingsBodies}) |-> Pricing(k[1], k[2])] @@ <<>>

\* Order(...) of the request req, its lines priced as pq and taxed at the
\* rate; the pricing is looked up where it is in the table
NewOrder(req, pq, rate) ==
    LET Order(priced) ==
            [status |-> "pending", station_id |-> req.station_id,
             session_id |-> req.session_id,
             items |-> [i \in DOMAIN pq |->
                           OrderItemOf(req.items[i], pq[i], priced.totals[i])],
             cafe_id |-> req.cafe_id, subtotal |-> priced.subtotal,
             tax |-> priced.tax, total |-> priced.total]
    IN  Order(IF <<pq, rate>> \in DOMAIN Priced THEN Priced[<<pq, rate>>]
              ELSE Pricing(pq, rate))

\* POST /orders
create_order(cafe_id, session_id, station_id, items) ==
    LET op == "create_order"
        req == [station_id |-> station_id, session_id |-> session_id,
                items |-> items, cafe_id |-> cafe_id]
        o == NewOrder(req, PricedLines(items), OrderTaxRate(cafe_id))
    IN
    /\ Len(order) < MaxOrders
    /\ IF items = <<>>
       THEN /\ resp' = Error(op, req, 400, "Order must have items")
            /\ audited' = <<>>
            /\ UNCHANGED order
       ELSE IF Raises(FirstError(items))
       THEN /\ resp' = Response(op, req, 400, FirstError(items))
            /\ audited' = <<>>
            /\ UNCHANGED order
       ELSE /\ order' = CreateDocument(order, o)
            /\ audited' = audit(<<>>, 1, "create", "order", NewId(order))
            /\ resp' = Swallowed(Response(op, req, 200,
                                          [total |-> o.total,
                                           order_id |-> NewId(order)]), 1)
    /\ UNCHANGED <<station, session, menuitem, payment, settings, user, audit_up, proc>>

\* a status write that does not leave served or canceled
SetOrderStatus_Forward(orders, order_id, status) ==
    IF orders[order_id].status \in {"served", "canceled"} THEN orders
    ELSE UpdateOne(orders, order_id, [status |-> status])

\* the order write of update_order_status
SetOrderStatus(orders, order_id, status) ==
    UpdateOne(orders, order_id, [status |-> status])

\* a checkout that clears the tax of the order it serves
ServeOrder_Untaxed(orders, order_id) ==
    UpdateOne(orders, order_id, [status |-> "served", tax |-> 0])

\* the order write of checkout
ServeOrder(orders, order_id) ==
    UpdateOne(orders, order_id, [status |-> "served"])

\* POST /orders/status
update_order_status(order_id, status) ==
    LET op == "update_order_status"
        req == [status |-> status, order_id |-> order_id] IN
    /\ IF ~OidOk(order_id)
       THEN /\ resp' = Error(op, req, 400, "Invalid ID")
            /\ audited' = <<>>
            /\ UNCHANGED order
       ELSE IF ~Found(order, order_id)
       THEN /\ resp' = Error(op, req, 404, "Order not found")
            /\ audited' = <<>>
            /\ UNCHANGED order
       ELSE /\ order' = SetOrderStatus(order, order_id, status)
            /\ audited' = audit(<<>>, 1, "update", "order", order_id)
            /\ resp' = Swallowed(Response(op, req, 200, Ok), 1)
    /\ UNCHANGED <<station, session, menuitem, payment, settings, user, audit_up, proc>>

\* ---------------------------------------------------------------- checkout
\* a lookup that never finds the earlier payment
Existing_None(payments, key) == {}

\* a lookup that filters on a status no stored payment has
Existing_Pending(payments, key) ==
    {i \in DOMAIN payments :
        payments[i].idempotency_key = key /\ payments[i].status = "pending"}

\* db.payment.find_one({"idempotency_key": key, "status": "success"})
Existing(payments, key) ==
    {i \in DOMAIN payments :
        payments[i].idempotency_key = key /\ payments[i].status = "success"}

\* POST /checkout
checkout(session_id, order_id, key, now) ==
    LET op == "checkout"
        req == [session_id |-> session_id, order_id |-> order_id, idempotency_key |-> key]
        pid == NewId(payment)
        closing == /\ session_id # NoId
                   /\ Found(session, session_id)
                   /\ session[session_id].status # "ended"
        \* the audit writes made so far and what they appended
        n1 == IF closing THEN 1 ELSE 0
        a1 == IF closing THEN audit(<<>>, 1, "update", "session", session_id) ELSE <<>>
        n2 == IF order_id # NoId THEN n1 + 1 ELSE n1
        a2 == IF order_id # NoId THEN audit(a1, n2, "update", "order", order_id) ELSE a1
    IN
    IF Existing(payment, key) # {}
    THEN /\ resp' = Response(op, req, 200,
                [status |-> "success",
                 payment_id |-> First(Existing(payment, key))])
         /\ audited' = <<>>
         /\ UNCHANGED <<station, session, menuitem, order, payment, settings, user, audit_up, proc>>
    ELSE
    /\ Len(payment) < MaxPayments
    /\ payment' = CreateDocument(payment, [status |-> "success",
                                           idempotency_key |-> key])
    /\ IF session_id # NoId /\ ~OidOk(session_id)
       THEN /\ resp' = Error(op, req, 400, "Invalid ID")
            /\ audited' = <<>>
            /\ UNCHANGED <<station, session, order>>
       ELSE
       /\ IF closing
          THEN /\ session' = MarkEnded(session, session_id, now)
               /\ station' = FreeStation(station, session[session_id].station_id)
          ELSE UNCHANGED <<station, session>>
       /\ IF order_id # NoId /\ ~OidOk(order_id)
          THEN /\ resp' = Error(op, req, 400, "Invalid ID")
               /\ audited' = a1
               /\ UNCHANGED order
          ELSE /\ order' = IF order_id # NoId THEN ServeOrder(order, order_id) ELSE order
               /\ audited' = audit(a2, n2 + 1, "create", "payment", pid)
               /\ resp' = Swallowed(Response(op, req, 200,
                                             [status |-> "success",
                                              payment_id |-> pid]), n2 + 1)
    /\ UNCHANGED <<menuitem, settings, user, audit_up, proc>>

\* ---------------------------------------------------------------- settings
\* Settings(cafe_id=cafe_id, currency="INR", tax_rate=0.05,
\* service_charge_rate=0.0).model_dump()
DefaultSettings(cafe_id) ==
    [currency |-> "INR", tax_rate |-> DefaultTaxRate,
     service_charge_rate |-> 0, cafe_id |-> cafe_id]

\* s["_id"] = str(...): the dict s with the key "_id" set
WithId(s, id) ==
    [f \in DOMAIN s \cup {"_id"} |-> IF f = "_id" THEN id ELSE s[f]]

\* s.get("_id", "") of the dict that went to create_document, which got the
\* identifier new: the store either inserted that dict, which then holds the
\* identifier, or a copy of it
IdAfterCreate(new) == {NoId, new}

\* GET /settings
get_settings(cafe_id) ==
    LET op == "get_settings"
        req == [cafe_id |-> cafe_id]
        found == SettingsOf(cafe_id)
    IN
    /\ IF found # {}
       THEN /\ resp' = Response(op, req, 200,
                                WithId(settings[First(found)], First(found)))
            /\ UNCHANGED settings
       ELSE /\ settings' = CreateDocument(settings, DefaultSettings(cafe_id))
            /\ \E id \in IdAfterCreate(NewId(settings)) :
                  resp' = Response(op, req, 200,
                                   WithId(DefaultSettings(cafe_id), id))
    /\ audited' = <<>>
    /\ UNCHANGED <<station, session, menuitem, order, payment, user, audit_up, proc>>

\* s: Settings, the body of POST /settings, as s.model_dump()
SettingsDump(cafe_id, body) ==
    [currency |-> body.currency, tax_rate |-> body.tax_rate,
     service_charge_rate |-> body.service_charge_rate, cafe_id |-> cafe_id]

\* POST /settings
update_settings(cafe_id, body) ==
    LET op == "update_settings"
        s == SettingsDump(cafe_id, body)
        sid == IF SettingsOf(cafe_id) # {} THEN First(SettingsOf(cafe_id))
               ELSE NewId(settings)
    IN
    /\ settings' = IF SettingsOf(cafe_id) # {}
                   THEN UpdateOne(settings, First(SettingsOf(cafe_id)), s)
                   ELSE CreateDocument(settings, s)
    /\ audited' = audit(<<>>, 1, "update", "settings", sid)
    /\ resp' = Swallowed(Response(op, s, 200, Ok), 1)
    /\ UNCHANGED <<station, session, menuitem, order, payment, user, audit_up, proc>>

\* ---------------------------------------------------------------- interleaved handlers
\* One step per store call: the handlers take no lock and the store has no
\* transaction, so the calls of concurrent requests interleave freely.
Free(p) == proc[p].pc \in {"idle", "done"}

\* a new request takes the frame; the request it replaces leaves the history
Enter(p, label, req) ==
    proc' = [q \in Procs |->
                IF q = p THEN [Idle EXCEPT !.pc = label, !.req = req]
                ELSE [proc[q] EXCEPT !.raced = @ \ {p}]]

Goto(p, label) == proc' = [proc EXCEPT ![p].pc = label]

Return(p, code, body) ==
    proc' = [proc EXCEPT ![p].pc = "done", ![p].code = code, ![p].body = body]

Raise(p, code, detail) == Return(p, code, [detail |-> detail])

\* start_session, line by line
ss_call(p, station_id) ==
    /\ Free(p)
    /\ Enter(p, "ss_find", [op |-> "start_session", station_id |-> station_id])
    /\ UNCHANGED <<store, resp, audited, audit_up>>

\* st = db.station.find_one(...), and the two checks on it
ss_find(p) ==
    LET id == proc[p].req.station_id IN
    /\ proc[p].pc = "ss_find"
    /\ IF ~OidOk(id) THEN Raise(p, 400, "Invalid ID")
       ELSE IF ~Found(station, id) THEN Raise(p, 404, "Station not found")
       ELSE IF InUse(station[id]) THEN Raise(p, 409, "Station already in use")
       ELSE Goto(p, "ss_create")
    /\ UNCHANGED <<store, resp, audited, audit_up>>

\* sid = create_document("session", session)
ss_create(p) ==
    /\ proc[p].pc = "ss_create"
    /\ Len(session) < MaxSessions
    /\ session' = CreateDocument(session, NewSession(proc[p].req.station_id))
    /\ proc' = [proc EXCEPT ![p].pc = "ss_update", ![p].new = NewId(session)]
    /\ UNCHANGED <<station, menuitem, order, payment, settings, user, resp, audited, audit_up>>

\* db.station.update_one(...), then the response
ss_update(p) ==
    LET id == proc[p].req.station_id
        passed == {q \in Procs \ {p} :
                      /\ proc[q].req.op = "start_session"
                      /\ proc[q].req.station_id = id
                      /\ proc[q].pc \in {"ss_create", "ss_update"}} IN
    /\ proc[p].pc = "ss_update"
    /\ station' = OccupyStation(station, id, proc[p].new)
    /\ proc' = [proc EXCEPT ![p].pc = "done", ![p].code = 200,
                            ![p].body = [session_id |-> proc[p].new],
                            ![p].raced = passed,
                            ![p].audits = audit(@, 1, "create", "session", proc[p].new)]
    /\ UNCHANGED <<session, menuitem, order, payment, settings, user, resp, audited, audit_up>>

\* end_session, line by line
es_call(p, session_id) ==
    /\ Free(p)
    /\ Enter(p, "es_find", [op |-> "end_session", session_id |-> session_id])
    /\ UNCHANGED <<store, resp, audited, audit_up>>

\* sess = db.session.find_one(...), and the two checks on it
es_find(p) ==
    LET id == proc[p].req.session_id IN
    /\ proc[p].pc = "es_find"
    /\ IF ~OidOk(id) THEN Raise(p, 400, "Invalid ID")
       ELSE IF ~Found(session, id) THEN Raise(p, 404, "Session not found")
       ELSE IF AlreadyEnded(session[id]) THEN Return(p, 200, Ok)
       ELSE proc' = [proc EXCEPT ![p].pc = "es_session",
                                 ![p].snap = session[id].station_id]
    /\ UNCHANGED <<store, resp, audited, audit_up>>

\* db.session.update_one(...)
es_session(p, now) ==
    /\ proc[p].pc = "es_session"
    /\ session' = MarkEnded(session, proc[p].req.session_id, now)
    /\ Goto(p, "es_station")
    /\ UNCHANGED <<station, menuitem, order, payment, settings, user, resp, audited, audit_up>>

\* db.station.update_one(...) on sess["station_id"], then the response
es_station(p) ==
    /\ proc[p].pc = "es_station"
    /\ station' = FreeStation(station, proc[p].snap)
    /\ proc' = [proc EXCEPT ![p].pc = "done", ![p].code = 200, ![p].body = Ok,
                            ![p].audits = audit(@, 1, "update", "session",
                                                proc[p].req.session_id)]
    /\ UNCHANGED <<session, menuitem, order, payment, settings, user, resp, audited, audit_up>>

\* checkout, line by line
co_call(p, session_id, order_id, key) ==
    /\ Free(p)
    /\ Enter(p, "co_find", [op |-> "checkout", session_id |-> session_id,
                            order_id |-> order_id, idempotency_key |-> key])
    /\ UNCHANGED <<store, resp, audited, audit_up>>

\* existing = db.payment.find_one(...)
co_find(p) ==
    LET found == Existing(payment, proc[p].req.idempotency_key) IN
    /\ proc[p].pc = "co_find"
    /\ IF found # {}
       THEN Return(p, 200, [status |-> "success", payment_id |-> First(found)])
       ELSE Goto(p, "co_create")
    /\ UNCHANGED <<store, resp, audited, audit_up>>

\* where checkout goes on from "if req.order_id:" in the frame f, its next
\* audit write being the k-th of the step
ToOrder(f, k) ==
    IF f.req.order_id = NoId
    THEN [f EXCEPT !.pc = "done", !.code = 200,
                   !.body = [status |-> "success", payment_id |-> f.new],
                   !.audits = audit(@, k, "create", "payment", f.new)]
    ELSE IF ~OidOk(f.req.order_id)
    THEN [f EXCEPT !.pc = "done", !.code = 400, !.body = [detail |-> "Invalid ID"]]
    ELSE [f EXCEPT !.pc = "co_order"]

\* where checkout goes on from "if req.session_id:" in the frame f
ToSession(f) ==
    IF f.req.session_id = NoId THEN ToOrder(f, 1)
    ELSE IF ~OidOk(f.req.session_id)
    THEN [f EXCEPT !.pc = "done", !.code = 400, !.body = [detail |-> "Invalid ID"]]
    ELSE [f EXCEPT !.pc = "co_sess_find"]

\* pid = create_document("payment", payment)
co_create(p) ==
    /\ proc[p].pc = "co_create"
    /\ Len(payment) < MaxPayments
    /\ payment' = CreateDocument(payment,
           [status |-> "success",
            idempotency_key |-> proc[p].req.idempotency_key])
    /\ proc' = [proc EXCEPT ![p] = ToSession([proc[p] EXCEPT !.new = NewId(payment)])]
    /\ UNCHANGED <<station, session, menuitem, order, settings, user, resp, audited, audit_up>>

\* sess = db.session.find_one(...), and the check on it
co_sess_find(p) ==
    LET id == proc[p].req.session_id IN
    /\ proc[p].pc = "co_sess_find"
    /\ IF Found(session, id) /\ session[id].status # "ended"
       THEN proc' = [proc EXCEPT ![p].pc = "co_sess_end",
                                 ![p].snap = session[id].station_id]
       ELSE proc' = [proc EXCEPT ![p] = ToOrder(proc[p], 1)]
    /\ UNCHANGED <<store, resp, audited, audit_up>>

\* db.session.update_one(...)
co_sess_end(p, now) ==
    /\ proc[p].pc = "co_sess_end"
    /\ session' = MarkEnded(session, proc[p].req.session_id, now)
    /\ Goto(p, "co_station")
    /\ UNCHANGED <<station, menuitem, order, payment, settings, user, resp, audited, audit_up>>

\* db.station.update_one(...) on sess["station_id"]
co_station(p) ==
    /\ proc[p].pc = "co_station"
    /\ station' = FreeStation(station, proc[p].snap)
    /\ proc' = [proc EXCEPT ![p] =
                    ToOrder([proc[p] EXCEPT !.audits = audit(@, 1, "update", "session",
                                                             proc[p].req.session_id)], 2)]
    /\ UNCHANGED <<session, menuitem, order, payment, settings, user, resp, audited, audit_up>>

\* db.order.update_one(...), then the response
co_order(p) ==
    /\ proc[p].pc = "co_order"
    /\ order' = ServeOrder(order, proc[p].req.order_id)
    /\ proc' = [proc EXCEPT
           ![p].pc = "done", ![p].code = 200,
           ![p].body = [status |-> "success", payment_id |-> proc[p].new],
           ![p].audits = audit(audit(@, 1, "update", "order", proc[p].req.order_id),
                               2, "create", "payment", proc[p].new)]
    /\ UNCHANGED <<station, session, menuitem, payment, settings, user, resp, audited, audit_up>>

\* create_order, line by line: an empty list is refused before any store call
ord_call(p, cafe_id, session_id, station_id, items) ==
    LET req == [op |-> "create_order", station_id |-> station_id,
                session_id |-> session_id, items |-> items,
                cafe_id |-> cafe_id] IN
    /\ Free(p)
    /\ IF items = <<>>
       THEN proc' = [q \in Procs |->
                IF q = p
                THEN [Idle EXCEPT !.pc = "done", !.req = req, !.code = 400,
                                  !.body = [detail |-> "Order must have items"]]
                ELSE [proc[q] EXCEPT !.raced = @ \ {p}]]
       ELSE Enter(p, "ord_item", req)
    /\ UNCHANGED <<store, resp, audited, audit_up>>

\* item_doc = db.menuitem.find_one(...) for the next line of req.items, the
\* checks on it and its pricing; after the last line the loop is left
ord_item(p) ==
    LET k == Len(proc[p].priced) + 1
        it == proc[p].req.items[k]
    IN
    /\ proc[p].pc = "ord_item"
    /\ IF Raises(LineError(it)) THEN Return(p, 400, LineError(it))
       ELSE proc' = [proc EXCEPT
                ![p].pc = IF k = Len(proc[p].req.items) THEN "ord_settings"
                          ELSE "ord_item",
                ![p].priced = Append(@, <<menuitem[it.item_id].price, QtyOf(it)>>)]
    /\ UNCHANGED <<store, resp, audited, audit_up>>

\* settings = db.settings.find_one({"cafe_id": req.cafe_id}) or {"tax_rate": 0.0}
ord_settings(p) ==
    /\ proc[p].pc = "ord_settings"
    /\ proc' = [proc EXCEPT ![p].pc = "ord_create",
                            ![p].rate = OrderTaxRate(proc[p].req.cafe_id)]
    /\ UNCHANGED <<store, resp, audited, audit_up>>

\* tax and total from what was read, oid_new = create_document("order", order),
\* then the response
ord_create(p) ==
    LET o == NewOrder(proc[p].req, proc[p].priced, proc[p].rate) IN
    /\ proc[p].pc = "ord_create"
    /\ Len(order) < MaxOrders
    /\ order' = CreateDocument(order, o)
    /\ proc' = [proc EXCEPT ![p].pc = "done", ![p].code = 200,
                            ![p].body = [total |-> o.total,
                                         order_id |-> NewId(order)],
                            ![p].new = NewId(order),
                            ![p].audits = audit(@, 1, "create", "order", NewId(order))]
    /\ UNCHANGED <<station, session, menuitem, payment, settings, user, resp, audited, audit_up>>

\* get_settings, line by line
gs_call(p, cafe_id) ==
    /\ Free(p)
    /\ Enter(p, "gs_find", [op |-> "get_settings", cafe_id |-> cafe_id])
    /\ UNCHANGED <<store, resp, audited, audit_up>>

\* s = db.settings.find_one(...); a record that is found is the response
gs_find(p) ==
    LET found == SettingsOf(proc[p].req.cafe_id) IN
    /\ proc[p].pc = "gs_find"
    /\ IF found # {}
       THEN Return(p, 200, WithId(settings[First(found)], First(found)))
       ELSE Goto(p, "gs_create")
    /\ UNCHANGED <<store, resp, audited, audit_up>>

\* create_document("settings", s), then the response
gs_create(p) ==
    LET s == DefaultSettings(proc[p].req.cafe_id) IN
    /\ proc[p].pc = "gs_create"
    /\ settings' = CreateDocument(settings, s)
    /\ \E id \in IdAfterCreate(NewId(settings)) : Return(p, 200, WithId(s, id))
    /\ UNCHANGED <<station, session, menuitem, order, payment, user, resp, audited, audit_up>>

\* update_settings, line by line
us_call(p, cafe_id, body) ==
    /\ Free(p)
    /\ Enter(p, "us_find", [op |-> "update_settings",
                            body |-> SettingsDump(cafe_id, body)])
    /\ UNCHANGED <<store, resp, audited, audit_up>>

\* existing = db.settings.find_one(...)
us_find(p) ==
    LET found == SettingsOf(proc[p].req.body.cafe_id) IN
    /\ proc[p].pc = "us_find"
    /\ IF found # {}
       THEN proc' = [proc EXCEPT ![p].pc = "us_update", ![p].snap = First(found)]
       ELSE Goto(p, "us_create")
    /\ UNCHANGED <<store, resp, audited, audit_up>>

\* db.settings.update_one({"_id": existing["_id"]}, ...), then the response
us_update(p) ==
    /\ proc[p].pc = "us_update"
    /\ settings' = UpdateOne(settings, proc[p].snap, proc[p].req.body)
    /\ proc' = [proc EXCEPT ![p].pc = "done", ![p].code = 200, ![p].body = Ok,
                            ![p].audits = audit(@, 1, "update", "settings",
                                                proc[p].snap)]
    /\ UNCHANGED <<station, session, menuitem, order, payment, user, resp, audited, audit_up>>

\* sid = create_document("settings", s), then the response
us_create(p) ==
    /\ proc[p].pc = "us_create"
    /\ settings' = CreateDocument(settings, proc[p].req.body)
    /\ proc' = [proc EXCEPT ![p].pc = "done", ![p].code = 200, ![p].body = Ok,
                            ![p].new = NewId(settings),
                            ![p].audits = audit(@, 1, "update", "settings",
                                                NewId(settings))]
    /\ UNCHANGED <<station, session, menuitem, order, payment, user, resp, audited, audit_up>>

\* register, line by line
rg_call(p, email) ==
    /\ Free(p)
    /\ Enter(p, "rg_find", [op |-> "register", email |-> email])
    /\ UNCHANGED <<store, resp, audited, audit_up>>

\* existing = db.user.find_one({"email": req.email})
rg_find(p) ==
    /\ proc[p].pc = "rg_find"
    /\ IF UserOf(proc[p].req.email) # {}
       THEN Raise(p, 400, "Email already registered")
       ELSE Goto(p, "rg_create")
    /\ UNCHANGED <<store, resp, audited, audit_up>>

\* uid = create_document("user", user), then the response
rg_create(p) ==
    /\ proc[p].pc = "rg_create"
    /\ user' = CreateDocument(user, [email |-> proc[p].req.email,
                                     is_active |-> TRUE])
    /\ proc' = [proc EXCEPT ![p].pc = "done", ![p].code = 200,
                            ![p].body = [user_id |-> NewId(user)],
                            ![p].new = NewId(user),
                            ![p].audits = audit(@, 1, "create", "user", NewId(user))]
    /\ UNCHANGED <<station, session, menuitem, order, payment, settings, resp, audited, audit_up>>

\* ---------------------------------------------------------------- requests
StationIds == {BadId} \cup (1 .. MaxStations)
SessionIds == {BadId} \cup (1 .. MaxSessions)
OrderIds == {BadId} \cup (1 .. MaxOrders)
ItemIds == {BadId} \cup (1 .. MaxMenuItems + 1)

\* one requested line: {"item_id": ..., "qty": ...}, qty optional;
\* one line without qty and one with a price of the client's
Lines == [qty : Qtys, item_id : ItemIds]
         \cup {[item_id |-> 1], [price |-> 1, qty |-> 1, item_id |-> 1]}

\* the lists of at most n lines
RECURSIVE ItemLists(_)
ItemLists(n) ==
    IF n = 0 THEN {<<>>}
    ELSE ItemLists(n - 1) \cup
         {Append(l, it) : l \in {x \in ItemLists(n - 1) : Len(x) = n - 1}, it \in Lines}

CreateStation == \E s \in StationStatuses, c \in Refs : create_station(s, c)
UpdateStationStatus ==
    \E i \in StationIds, s \in StationStatuses : update_station_status(i, s)
StartSession == \E i \in StationIds : start_session(i)
\* now_iso() returns one of two instants
EndSession == \E i \in SessionIds, t \in {1, 2} : end_session(i, t)
CreateMenuItem == \E p \in Prices : create_menu_item(p)
\* the first order, of every request
CreateOrder ==
    /\ order = <<>>
    /\ \E c \in Cafes, items \in ItemLists(MaxLines) : create_order(c, NoId, NoId, items)
UpdateOrderStatus == \E i \in OrderIds, s \in OrderStatuses : update_order_status(i, s)
Checkout ==
    \E s \in {NoId} \cup SessionIds, k \in Keys : checkout(s, NoId, k, 1)
GetSettings == \E c \in Cafes : get_settings(c)

\* the requests of the order-status specification: stations start available,
\* one fixed order line, one clock value
OpenStation == create_station("available", NoId)
CloseSession == \E i \in SessionIds : end_session(i, 1)
AddMenuItem == create_menu_item(5000)
PlaceOrder == create_order("c1", NoId, NoId, <<[qty |-> 1, item_id |-> 1]>>)
Pay == \E s \in {NoId} \cup SessionIds, o \in {NoId} \cup OrderIds, k \in Keys :
           checkout(s, o, k, 1)

\* the requests of the audit specification: one of each kind on the first
\* station, session and order
Enroll == register("e1")
Service == \E s \in {"available", "maintenance"} : update_station_status(1, s)
Begin == start_session(1)
Finish == end_session(1, 1)
Progress == \E s \in {"preparing", "canceled"} : update_order_status(1, s)
Settle == \E s \in Refs, o \in Refs : checkout(s, o, "k1", 2)
Configure == update_settings("c1", [currency |-> "INR", tax_rate |-> 625,
                                    service_charge_rate |-> 0])

\* the requests of the settings specification: one line on the first created
\* menu item, settings other than the defaults
Quote == \E c \in Cafes, q \in {1, 2} :
             create_order(c, NoId, NoId, <<[qty |-> q, item_id |-> 1]>>)
Reconfigure == \E c \in Cafes :
                   update_settings(c, [currency |-> "USD", tax_rate |-> 625,
                                       service_charge_rate |-> 1000])

\* the requests of the order and pricing specifications: settings for the
\* first cafe only; the first order, of either cafe, its lines on the menu
\* items that were created
ReadRates == get_settings("c1")
SetRates == \E b \in SettingsBodies : update_settings("c1", b)
PriceOrder ==
    /\ order = <<>>
    /\ \E c \in Cafes, items \in ItemLists(MaxLines) :
          /\ items # <<>>
          /\ \A i \in DOMAIN items : ~Raises(LineError(items[i]))
          /\ create_order(c, NoId, NoId, items)

\* the requests of the order specification that enter create_order step by
\* step: no line, and a line with qty 0 after a line on the first menu item
RefusedCall(p) ==
    \/ ord_call(p, "c1", NoId, NoId, <<>>)
    \/ ord_call(p, "c1", NoId, NoId,
                <<[qty |-> 1, item_id |-> 1], [qty |-> 0, item_id |-> 2]>>)

\* the requests of the settings and pricing specifications entering
\* create_order step by step
QuoteCall(p) == \E c \in Cafes :
                    ord_call(p, c, NoId, NoId, <<[qty |-> 1, item_id |-> 1]>>)
\* two of the first menu item and one of the second, for the first cafe
PriceOrderCall(p) ==
    ord_call(p, "c1", NoId, NoId,
             <<[qty |-> 2, item_id |-> 1], [qty |-> 1, item_id |-> 2]>>)

\* the requests of the gate specification: stations are created and set out
\* of service, never set available by hand
Install == \E s \in {"offline", "maintenance"} : create_station(s, NoId)
Withdraw == \E i \in StationIds, s \in {"offline", "maintenance"} :
                update_station_status(i, s)

\* ---------------------------------------------------------------- specifications
\* stations, sessions and payments, one request at a time
Next ==
    \/ CreateStation
    \/ UpdateStationStatus
    \/ StartSession
    \/ EndSession
    \/ Checkout

Spec == Init /\ [][Next]_vars

\* start_session, end_session and checkout interleaved at their store calls
ConcNext ==
    \/ (station = <<>> /\ OpenStation)
    \/ \E p \in Procs :
          \/ \E i \in 1 .. MaxStations : ss_call(p, i)
          \/ ss_find(p)
          \/ ss_create(p)
          \/ ss_update(p)
          \/ \E i \in 1 .. MaxSessions : es_call(p, i)
          \/ es_find(p)
          \/ es_session(p, 1)
          \/ es_station(p)
          \/ \E i \in {NoId} \cup (1 .. MaxSessions), o \in {NoId, 1} :
                co_call(p, i, o, "k1")
          \/ co_find(p)
          \/ co_create(p)
          \/ co_sess_find(p)
          \/ co_sess_end(p, 1)
          \/ co_station(p)
          \/ co_order(p)

ConcSpec == Init /\ [][ConcNext]_vars

\* orders from placement to payment, one request at a time
FlowNext ==
    \/ OpenStation
    \/ StartSession
    \/ CloseSession
    \/ AddMenuItem
    \/ PlaceOrder
    \/ UpdateOrderStatus
    \/ Pay

FlowSpec == Init /\ [][FlowNext]_vars

\* orders and the requests that are refused: menu, settings and orders, one
\* request placed step by step between the others
OrderNext ==
    \/ AddMenuItem
    \/ CreateOrder
    \/ ReadRates
    \/ SetRates
    \/ RefusedCall(1)
    \/ ord_item(1)

OrderSpec == Init /\ [][OrderNext]_vars

\* order pricing: menu items of every price, settings and orders, the orders
\* placed whole or step by step between other requests
PriceNext ==
    \/ CreateMenuItem
    \/ PriceOrder
    \/ ReadRates
    \/ SetRates
    \/ PriceOrderCall(1)
    \/ ord_item(1)
    \/ ord_settings(1)
    \/ ord_create(1)

PriceSpec == Init /\ [][PriceNext]_vars

\* every mutating request, while the audit store goes down and comes back
AuditNext ==
    \/ AuditStoreFlips
    \/ Enroll
    \/ OpenStation
    \/ Service
    \/ Begin
    \/ Finish
    \/ AddMenuItem
    \/ PlaceOrder
    \/ Progress
    \/ Settle
    \/ Configure

AuditSpec == Init /\ [][AuditNext]_vars

\* settings read, settings written and the tax of an order, placed whole or
\* step by step between other requests
SettingsNext ==
    \/ AddMenuItem
    \/ Quote
    \/ GetSettings
    \/ Reconfigure
    \/ QuoteCall(1)
    \/ ord_item(1)
    \/ ord_settings(1)
    \/ ord_create(1)

SettingsSpec == Init /\ [][SettingsNext]_vars

\* the statuses of an order: placed, moved by hand, served by checkout
StatusNext ==
    \/ AddMenuItem
    \/ PlaceOrder
    \/ UpdateOrderStatus
    \/ Settle

StatusSpec == Init /\ [][StatusNext]_vars

\* payments: first checkouts and replays on one station and its orders
PayNext ==
    \/ OpenStation
    \/ Begin
    \/ AddMenuItem
    \/ PlaceOrder
    \/ Pay

PaySpec == Init /\ [][PayNext]_vars

\* a station that is out of service until a session is started on it
GateNext ==
    \/ Install
    \/ Withdraw
    \/ StartSession
    \/ EndSession

GateSpec == Init /\ [][GateNext]_vars

\* get_settings, update_settings and register interleaved at their store
\* calls: two requests that both looked before either wrote both insert
RaceNext ==
    \E p \in Procs :
        \/ \E c \in Cafes : gs_call(p, c)
        \/ gs_find(p)
        \/ gs_create(p)
        \/ \E b \in SettingsBodies : us_call(p, "c1", b)
        \/ us_find(p)
        \/ us_update(p)
        \/ us_create(p)
        \/ rg_call(p, "e1")
        \/ rg_find(p)
        \/ rg_create(p)

RaceSpec == Init /\ [][RaceNext]_vars

\* ---------------------------------------------------------------- properties
WithKey(payments, k) == {i \in DOMAIN payments : payments[i].idempotency_key = k}

ActiveOn(st) ==
    {s \in DOMAIN session : session[s].station_id = st /\ session[s].status = "active"}

\* C1: a checkout that answers 200 for key k leaves exactly one Payment with
\* key k and returns its id; when a Payment with key k was already there (a
\* checkout with k ran before) no Payment is added, and after a completed
\* checkout with k the next checkout with k returns the same payment id.
C1_SequentialIdempotency ==
    [][(resp'.op = "checkout" /\ resp'.code = 200) =>
        LET k == resp'.req.idempotency_key IN
        /\ Cardinality(WithKey(payment', k)) = 1
        /\ resp'.body.payment_id \in WithKey(payment', k)
        /\ resp'.body.status = "success"
        /\ WithKey(payment, k) # {} => payment' = payment
        /\ (resp.op = "checkout" /\ resp.code = 200 /\ resp.req.idempotency_key = k)
              => resp'.body.payment_id = resp.body.payment_id]_vars

\* a replay with other fields: the first of two payments is returned to a
\* request that is not the one that created it
C1_Witness ==
    /\ resp.op = "checkout" /\ resp.code = 200
    /\ Len(payment) = 2
    /\ resp.body.payment_id = 1
    /\ payment[1].idempotency_key = resp.req.idempotency_key
    /\ resp.req.session_id # NoId

\* C2: every station has at most one active session referencing it.
C2_OneActivePerStation ==
    \A st \in DOMAIN station : Cardinality(ActiveOn(st)) <= 1

\* C3: a station is in-use iff its current_session_id is non-null and names
\* an active session.
C3_InUseIffActiveSession ==
    \A st \in DOMAIN station :
        station[st].status = "in-use" <=>
            /\ station[st].current_session_id # NoId
            /\ station[st].current_session_id \in DOMAIN session
            /\ session[station[st].current_session_id].status = "active"

\* C4: startSession on an in-use station answers 409, creates no session and
\* leaves the stations as they were; on an available station it answers 200,
\* creates exactly one session, active, and leaves that station in-use with
\* current_session_id = the returned session id.
C4_StartSessionGate ==
    [][(resp'.op = "start_session" /\ resp'.req.station_id \in DOMAIN station) =>
        LET id == resp'.req.station_id IN
        /\ station[id].status = "in-use" =>
              /\ resp'.code = 409
              /\ session' = session
              /\ station' = station
        /\ station[id].status = "available" =>
              /\ resp'.code = 200
              /\ Len(session') = Len(session) + 1
              /\ SubSeq(session', 1, Len(session)) = session
              /\ session'[Len(session')].status = "active"
              /\ session'[Len(session')].station_id = id
              /\ resp'.body.session_id = Len(session')
              /\ station'[id].status = "in-use"
              /\ station'[id].current_session_id = resp'.body.session_id
              /\ \A o \in DOMAIN station : o # id => station'[o] = station[o]]_vars

\* a start was refused on a station that an earlier start had taken
C4_Witness ==
    /\ resp.op = "start_session" /\ resp.code = 409
    /\ resp.req.station_id \in DOMAIN station
    /\ LET st == station[resp.req.station_id] IN
       /\ st.status = "in-use"
       /\ st.current_session_id \in DOMAIN session
       /\ session[st.current_session_id].status = "active"
       /\ session[st.current_session_id].station_id = resp.req.station_id

\* C5: endSession on a session that is already ended answers 200 and changes
\* no record: not the session's ended_at, not its station.
C5_EndEndedIsNoOp ==
    [][(/\ resp'.op = "end_session"
        /\ resp'.req.session_id \in DOMAIN session
        /\ session[resp'.req.session_id].status = "ended") =>
        /\ resp'.code = 200
        /\ session' = session
        /\ station' = station
        /\ payment' = payment /\ order' = order]_vars

\* an ended session was ended again after a later session took its station
C5_Witness ==
    /\ resp.op = "end_session" /\ resp.code = 200
    /\ resp.req.session_id \in DOMAIN session
    /\ LET sess == session[resp.req.session_id]
           st == station[sess.station_id] IN
       /\ sess.status = "ended"
       /\ st.status = "in-use"
       /\ st.current_session_id \in DOMAIN session
       /\ st.current_session_id # resp.req.session_id
       /\ session[st.current_session_id].status = "active"
       /\ session[st.current_session_id].station_id = sess.station_id

\* C6: a checkout that is not a replay ends the session its session_id names
\* (if not ended) and frees that session's station, and sets the order its
\* order_id names to served.
C6_CheckoutSideEffects ==
    [][(/\ resp'.op = "checkout"
        /\ WithKey(payment, resp'.req.idempotency_key) = {}) =>
        LET s == resp'.req.session_id
            o == resp'.req.order_id IN
        /\ (s \in DOMAIN session /\ session[s].status # "ended") =>
              /\ session'[s].status = "ended"
              /\ station'[session[s].station_id].status = "available"
              /\ station'[session[s].station_id].current_session_id = NoId
        /\ o \in DOMAIN order => order'[o].status = "served"]_vars

\* a requested line that must be refused
BadLine(it) ==
    \/ it.item_id \notin DOMAIN menuitem
    \/ ~menuitem[it.item_id].is_active
    \/ ("qty" \in DOMAIN it /\ it.qty <= 0)

\* a menu item with is_active false is refused on every line that names it:
\* no request stores one, so the check is made on the document itself
InactiveRefused ==
    \A price \in Prices, it \in Lines :
        Raises(LineCheck({[is_active |-> FALSE, price |-> price]}, it))

\* the step is a whole request, answered in resp: no frame moves
Whole == proc' = proc

\* the line the request in the frame of p looks up next
NextLine(p) == proc[p].req.items[Len(proc[p].priced) + 1]

\* the request in the frame of p ends in this step, with 400 and no order
Refused(p) == proc'[p].pc = "done" /\ proc'[p].code = 400 /\ order' = order

\* C7: createOrder answers 400 and creates no Order when the items list is
\* empty or any line names a missing or inactive menu item or has qty <= 0.
C7_InvalidOrderRejected ==
    [][/\ (/\ Whole
           /\ resp'.op = "create_order"
           /\ \/ resp'.req.items = <<>>
              \/ \E i \in DOMAIN resp'.req.items : BadLine(resp'.req.items[i])) =>
           /\ resp'.code = 400
           /\ order' = order
       /\ \A p \in Procs :
             (proc'[p] # proc[p] /\ proc'[p].req.op = "create_order") =>
                /\ (Free(p) /\ proc'[p].req.items = <<>>) => Refused(p)
                /\ (proc[p].pc = "ord_item" /\ BadLine(NextLine(p))) => Refused(p)
                /\ proc'[p].code = 400 => order' = order
       /\ InactiveRefused]_vars

\* a valid first line on a stored menu item, then a line with qty 0 on it
C7_Witness ==
    /\ resp.op = "create_order" /\ resp.code = 400
    /\ Len(resp.req.items) = 2
    /\ ~BadLine(resp.req.items[1])
    /\ resp.req.items[2].item_id \in DOMAIN menuitem
    /\ "qty" \in DOMAIN resp.req.items[2]
    /\ resp.req.items[2].qty = 0
    /\ resp.body.detail = "Invalid quantity"
    /\ order = <<>>

\* t is an integer nearest to n / d
IsNearest(t, n, d) ==
    LET e == IF t * d >= n THEN t * d - n ELSE n - t * d IN 2 * e <= d

\* t hundredths is the float x = m / 2^e rounded to two places, a half to
\* the even neighbour: (2t - 1) * 2^e <= 200 * m <= (2t + 1) * 2^e, with
\* equality for an even t only
IsRoundedFloat(t, x) ==
    LET v == BigMul(x[1], Big(200))
        lo == IF t = 0 THEN 1 ELSE Cmp(v, ShiftLeft(Big(2 * t - 1), x[2]))
        hi == Cmp(v, ShiftLeft(Big(2 * t + 1), x[2]))
    IN  /\ lo >= 0
        /\ hi <= 0
        /\ (lo = 0 \/ hi = 0) => t % 2 = 0

\* the float subtotal * tax_rate of the order o at the tax rate
Taxable(o, rate) ==
    FloatMul(FloatSubtotal([i \in DOMAIN o.items |->
                               <<o.items[i].unit_price, o.items[i].qty>>]),
             FloatOf(rate, RateScale))

\* the tax of the order o is its subtotal times the rate, rounded to two
\* places: a nearest hundredth of the decimal product, and the float product
\* rounded half to even
TaxIsRounded(o, rate) ==
    /\ IsNearest(o.tax, o.subtotal * rate, RateScale)
    /\ IsRoundedFloat(o.tax, Taxable(o, rate))

RECURSIVE Sum(_, _)
Sum(f, S) == IF S = {} THEN 0 ELSE LET x == CHOOSE y \in S : TRUE IN f[x] + Sum(f, S \ {x})

\* the order o is pending and priced from the menu for the requested items
\* at the tax rate: unit prices, line totals, subtotal, tax and total
PricedFor(o, items, rate) ==
    /\ o.status = "pending"
    /\ Len(o.items) = Len(items)
    /\ \A i \in DOMAIN o.items :
          /\ o.items[i].item_id = items[i].item_id
          /\ o.items[i].unit_price = menuitem[items[i].item_id].price
          /\ o.items[i].qty = IF "qty" \in DOMAIN items[i] THEN items[i].qty ELSE 1
          /\ o.items[i].total_price = o.items[i].unit_price * o.items[i].qty
    /\ o.subtotal = Sum([i \in DOMAIN o.items |-> o.items[i].total_price],
                        DOMAIN o.items)
    /\ TaxIsRounded(o, rate)
    /\ o.total = o.subtotal + o.tax

\* the settings records stored for the cafe
StoredFor(cafe_id) == {i \in DOMAIN settings : settings[i].cafe_id = cafe_id}

\* the request in the frame of p reads the settings in this step
ReadsSettings(p) == proc[p].pc = "ord_settings" /\ proc'[p].pc = "ord_create"

\* the request in the frame of p inserts its order in this step
InsertsOrder(p) == proc[p].pc = "ord_create" /\ proc'[p].pc = "done"

\* C8: an Order that createOrder creates is pending; each line has the menu
\* item's stored price as unit_price and total_price = unit_price * qty;
\* subtotal is the sum of the line totals; tax = round(subtotal * tax_rate, 2)
\* with the tax_rate of the cafe's stored Settings; total = round(subtotal +
\* tax, 2).  The tax_rate is the one stored when createOrder looks the
\* settings up, whether it runs alone or between the steps of other requests.
C8_OrderPricing ==
    [][/\ (Whole /\ resp'.op = "create_order" /\ resp'.code = 200) =>
           LET req == resp'.req
               o == order'[Len(order')] IN
           /\ Len(order') = Len(order) + 1
           /\ resp'.body.order_id = Len(order')
           /\ \A i \in StoredFor(req.cafe_id) :
                 PricedFor(o, req.items, settings[i].tax_rate)
           /\ resp'.body.total = o.total
       /\ \A p \in Procs :
             /\ ReadsSettings(p) =>
                   \A i \in StoredFor(proc[p].req.cafe_id) :
                       proc'[p].rate = settings[i].tax_rate
             /\ InsertsOrder(p) =>
                   LET o == order'[Len(order')] IN
                   /\ Len(order') = Len(order) + 1
                   /\ proc'[p].body.order_id = Len(order')
                   /\ PricedFor(o, proc[p].req.items, proc[p].rate)
                   /\ proc'[p].body.total = o.total]_vars

\* the example: tax_rate 0.05, 2 x 100 + 1 x 50 gives 250, 12.5 and 262.5
C8_Witness ==
    /\ resp.op = "create_order" /\ resp.code = 200
    /\ \E i \in DOMAIN settings :
          settings[i].cafe_id = resp.req.cafe_id /\ settings[i].tax_rate = 500
    /\ LET o == order[resp.body.order_id] IN
       /\ Len(o.items) = 2
       /\ o.items[1].unit_price = 10000 /\ o.items[1].qty = 2
       /\ o.items[2].unit_price = 5000 /\ o.items[2].qty = 1
       /\ o.subtotal = 25000
       /\ o.tax = 1250
       /\ o.total = 26250

\* C9: for every idempotency_key at most one success Payment exists, and the
\* checkouts that answered 200 for that key all returned the same payment id.
C9_OneSuccessPerKey ==
    \A k \in Keys :
        /\ Cardinality({i \in DOMAIN payment :
               payment[i].idempotency_key = k /\ payment[i].status = "success"}) <= 1
        /\ \A p, q \in Procs :
              (/\ proc[p].pc = "done" /\ proc[q].pc = "done"
               /\ proc[p].req.op = "checkout" /\ proc[q].req.op = "checkout"
               /\ proc[p].req.idempotency_key = k /\ proc[q].req.idempotency_key = k
               /\ proc[p].code = 200 /\ proc[q].code = 200)
              => proc[p].body.payment_id = proc[q].body.payment_id

\* C10: when two start_session requests on one station have both passed the
\* in-use check before either wrote the station, and no other request has
\* ended their sessions since, both have answered 200 with different session
\* ids, both sessions are active on that station, and the station is in-use
\* with current_session_id naming one of the two.
C10_StartRace ==
    \A p \in Procs : \A q \in proc[p].raced :
        (/\ proc[p].pc = "done" /\ proc[q].pc = "done"
         /\ session[proc[p].new].status # "ended"
         /\ session[proc[q].new].status # "ended") =>
            LET id == proc[p].req.station_id
                sp == proc[p].body.session_id
                sq == proc[q].body.session_id IN
            /\ proc[p].code = 200 /\ proc[q].code = 200
            /\ proc[q].req.op = "start_session" /\ proc[q].req.station_id = id
            /\ sp # sq
            /\ {sp, sq} \subseteq ActiveOn(id)
            /\ station[id].status = "in-use"
            /\ station[id].current_session_id \in {sp, sq}

\* both racing requests have answered
C10_Witness ==
    \E p \in Procs : \E q \in proc[p].raced :
        /\ proc[p].pc = "done" /\ proc[q].pc = "done"
        /\ proc[p].code = 200 /\ proc[q].code = 200
        /\ Cardinality(ActiveOn(proc[p].req.station_id)) = 2
        /\ station[proc[p].req.station_id].current_session_id = proc[q].body.session_id
\* C11: the response of a mutating request and the collections it leaves are
\* what the request and the collections before it determine, audit write
\* succeeding or failing: a request whose conditions for success hold answers
\* 200 and every write of its workflow is made, the writes after an audit
\* call included.
C11_AuditFailureIgnored ==
    [][(audit_up' = audit_up) =>
        LET r == resp'
            q == resp'.req IN
        /\ r.op = "register" =>
              IF \E i \in DOMAIN user : user[i].email = q.email
              THEN r.code = 400 /\ user' = user
              ELSE /\ r.code = 200 /\ r.body.user_id = Len(user')
                   /\ user' = Append(user, [email |-> q.email,
                                            is_active |-> TRUE])
        /\ r.op = "create_station" =>
              /\ r.code = 200 /\ r.body.station_id = Len(station')
              /\ station' = Append(station, [status |-> q.status,
                                   current_session_id |-> q.current_session_id])
        /\ (r.op = "update_station_status" /\ q.station_id \in DOMAIN station) =>
              /\ r.code = 200
              /\ station'[q.station_id].status = q.status
        /\ (r.op = "start_session" /\ q.station_id \in DOMAIN station
                /\ station[q.station_id].status # "in-use") =>
              /\ r.code = 200 /\ r.body.session_id = Len(session')
              /\ Len(session') = Len(session) + 1
              /\ session'[Len(session')].status = "active"
              /\ station'[q.station_id].status = "in-use"
              /\ station'[q.station_id].current_session_id = Len(session')
        /\ (r.op = "end_session" /\ q.session_id \in DOMAIN session) =>
              /\ r.code = 200
              /\ session'[q.session_id].status = "ended"
              /\ session[q.session_id].status # "ended" =>
                    station'[session[q.session_id].station_id].status = "available"
        /\ r.op = "create_menu_item" =>
              /\ r.code = 200 /\ r.body.menu_item_id = Len(menuitem')
              /\ menuitem' = Append(menuitem, [is_active |-> TRUE, price |-> q.price])
        /\ (r.op = "create_order" /\ q.items # <<>>
                /\ \A i \in DOMAIN q.items : ~BadLine(q.items[i])) =>
              /\ r.code = 200 /\ r.body.order_id = Len(order')
              /\ Len(order') = Len(order) + 1
              /\ order'[Len(order')].status = "pending"
        /\ (r.op = "update_order_status" /\ q.order_id \in DOMAIN order) =>
              /\ r.code = 200
              /\ order'[q.order_id].status = q.status
        /\ (r.op = "checkout" /\ WithKey(payment, q.idempotency_key) = {}
                /\ q.session_id >= NoId /\ q.order_id >= NoId) =>
              /\ r.code = 200 /\ r.body.payment_id = Len(payment')
              /\ Len(payment') = Len(payment) + 1
              /\ payment'[Len(payment')].idempotency_key = q.idempotency_key
              /\ (q.session_id \in DOMAIN session /\ session[q.session_id].status # "ended") =>
                    /\ session'[q.session_id].status = "ended"
                    /\ station'[session[q.session_id].station_id].status = "available"
              /\ q.order_id \in DOMAIN order => order'[q.order_id].status = "served"
        /\ r.op = "update_settings" =>
              /\ r.code = 200
              /\ \E i \in DOMAIN settings' :
                    /\ settings'[i] = q
                    /\ \A j \in DOMAIN settings' :
                          settings'[j].cafe_id = q.cafe_id => j = i]_vars

\* a checkout whose first and third audit writes failed: the session was
\* ended at the time of the checkout, the station freed, the order served and
\* the payment returned, and the one audit entry is that of the order
C11_Witness ==
    /\ audit_up = <<FALSE, TRUE, FALSE>>
    /\ resp.op = "checkout" /\ resp.code = 200
    /\ resp.req.session_id = 1 /\ resp.req.order_id = 1
    /\ resp.body.payment_id = Len(payment)
    /\ session # <<>> /\ order # <<>>
    /\ session[1].status = "ended" /\ session[1].ended_at = 2
    /\ station[session[1].station_id].status = "available"
    /\ order[1].status = "served"
    /\ Len(audited) = 1
    /\ audited[1].table = "order"

\* C12: getSettings for a cafe with no stored Settings returns currency INR,
\* tax_rate 0.05, service_charge_rate 0.0 and stores exactly that record; for a
\* cafe with stored Settings it returns them and creates nothing; after it the
\* cafe has exactly one Settings record, and a getSettings that follows a
\* getSettings for the same cafe returns the same values.
C12_DefaultSettingsOnce ==
    [][(Whole /\ resp'.op = "get_settings") =>
        LET c == resp'.req.cafe_id
            stored == {i \in DOMAIN settings : settings[i].cafe_id = c} IN
        /\ resp'.code = 200
        /\ stored = {} =>
              /\ resp'.body.currency = "INR"
              /\ resp'.body.tax_rate = 500
              /\ resp'.body.service_charge_rate = 0
              /\ settings' = Append(settings, [currency |-> "INR",
                                               tax_rate |-> 500,
                                               service_charge_rate |-> 0,
                                               cafe_id |-> c])
        /\ stored # {} =>
              /\ settings' = settings
              /\ \E i \in stored :
                    \A f \in DOMAIN settings[i] : resp'.body[f] = settings[i][f]
        /\ Cardinality({i \in DOMAIN settings' : settings'[i].cafe_id = c}) = 1
        /\ (resp.op = "get_settings" /\ resp.req.cafe_id = c) =>
              /\ resp'.body.currency = resp.body.currency
              /\ resp'.body.tax_rate = resp.body.tax_rate
              /\ resp'.body.service_charge_rate = resp.body.service_charge_rate]_vars

\* a later getSettings for the cafe whose defaults were stored first: the
\* other cafe's record was created in between, the defaults are returned and
\* the cafe still has its one record
C12_Witness ==
    /\ resp.op = "get_settings" /\ resp.code = 200
    /\ Len(settings) = 2
    /\ settings[1].cafe_id = resp.req.cafe_id
    /\ settings[2].cafe_id # resp.req.cafe_id
    /\ settings[1].currency = "INR" /\ settings[1].tax_rate = 500
    /\ settings[1].service_charge_rate = 0
    /\ \A f \in DOMAIN settings[1] : resp.body[f] = settings[1][f]
    /\ resp.body._id = 1

\* C13: a checkout whose idempotency_key already has a success Payment
\* answers 200 with that Payment and changes no record: no Payment is created,
\* the session its session_id names is not ended, no station is freed and the
\* order its order_id names is not set to served.
C13_ReplayFrame ==
    [][(/\ resp'.op = "checkout"
        /\ \E i \in DOMAIN payment :
              /\ payment[i].idempotency_key = resp'.req.idempotency_key
              /\ payment[i].status = "success") =>
        /\ resp'.code = 200
        /\ resp'.body.payment_id \in DOMAIN payment
        /\ payment[resp'.body.payment_id].idempotency_key = resp'.req.idempotency_key
        /\ payment' = payment
        /\ session' = session
        /\ station' = station
        /\ order' = order
        /\ menuitem' = menuitem /\ settings' = settings]_vars

\* a replay that named an active session and an order not yet served: both
\* are as they were, the station is still taken
C13_Witness ==
    /\ resp.op = "checkout" /\ resp.code = 200
    /\ resp.req.session_id \in DOMAIN session
    /\ session[resp.req.session_id].status = "active"
    /\ station[session[resp.req.session_id].station_id].status = "in-use"
    /\ resp.req.order_id \in DOMAIN order
    /\ order[resp.req.order_id].status = "pending"

\* C14: no step sets a station to available with a null current_session_id
\* while the station's current_session_id names an active session of that
\* station.
C14_NoFreeOfTakenStation ==
    [][\A i \in DOMAIN station :
          LET c == station[i].current_session_id IN
          (/\ c \in DOMAIN session
           /\ session[c].status = "active"
           /\ session[c].station_id = i) =>
              ~(/\ station'[i].status = "available"
                /\ station'[i].current_session_id = NoId)]_vars

\* C15: a checkout that answers with an error leaves every collection as it
\* was: no Payment is added, no session ended, no station freed, no order
\* served.
C15_CheckoutErrorAtomic ==
    [][(resp'.op = "checkout" /\ resp'.code >= 400) =>
        /\ payment' = payment
        /\ session' = session
        /\ station' = station
        /\ order' = order]_vars

\* C16: createOrder never writes the settings collection; the Order it
\* creates has tax = 0 and total = subtotal when the cafe has no stored
\* Settings, and tax = round(subtotal * tax_rate, 2), total = subtotal + tax
\* with the stored tax_rate when it has.
C16_OrderTimeTaxRate ==
    [][/\ (Whole /\ resp'.op = "create_order") =>
           LET c == resp'.req.cafe_id
               stored == {i \in DOMAIN settings : settings[i].cafe_id = c}
               o == order'[Len(order')] IN
           /\ settings' = settings
           /\ resp'.code = 200 =>
                 /\ Len(order') = Len(order) + 1
                 /\ o.cafe_id = c
                 /\ stored = {} => (o.tax = 0 /\ o.total = o.subtotal)
                 /\ \A i \in stored :
                       /\ TaxIsRounded(o, settings[i].tax_rate)
                       /\ o.total = o.subtotal + o.tax
                 /\ resp'.body.total = o.total
       /\ \A p \in Procs :
             LET c == proc[p].req.cafe_id
                 o == order'[Len(order')] IN
             /\ (proc'[p] # proc[p] /\ proc'[p].req.op = "create_order") =>
                   settings' = settings
             /\ ReadsSettings(p) =>
                   /\ StoredFor(c) = {} => proc'[p].rate = 0
                   /\ \A i \in StoredFor(c) : proc'[p].rate = settings[i].tax_rate
             /\ InsertsOrder(p) =>
                   /\ Len(order') = Len(order) + 1
                   /\ o.cafe_id = c
                   /\ proc[p].rate = 0 => (o.tax = 0 /\ o.total = o.subtotal)
                   /\ TaxIsRounded(o, proc[p].rate)
                   /\ o.total = o.subtotal + o.tax
                   /\ proc'[p].body.total = o.total]_vars

\* the same request twice for one cafe, before and after its first
\* getSettings: 100.00 untaxed, then 100.00 + 5.00
C16_Witness ==
    /\ resp.op = "create_order" /\ resp.code = 200
    /\ Len(order) = 2
    /\ order[1].cafe_id = order[2].cafe_id
    /\ order[1].items = order[2].items
    /\ order[1].subtotal = 10000 /\ order[1].tax = 0 /\ order[1].total = 10000
    /\ order[2].subtotal = 10000 /\ order[2].tax = 500 /\ order[2].total = 10500
    /\ \E i \in DOMAIN settings :
          /\ settings[i].cafe_id = order[2].cafe_id
          /\ settings[i].currency = "INR" /\ settings[i].tax_rate = 500

\* C17: updateOrderStatus on an existing order answers 200 and sets its
\* status to the requested one, whatever the status was, and changes nothing
\* else; on a well-formed id that names no order it answers 404 and changes no
\* record.
C17_AnyStatusTransition ==
    [][resp'.op = "update_order_status" =>
        LET id == resp'.req.order_id
            t == resp'.req.status IN
        /\ id \in DOMAIN order =>
              /\ resp'.code = 200
              /\ order' = [order EXCEPT ![id].status = t]
        /\ (id > NoId /\ id \notin DOMAIN order) =>
              /\ resp'.code = 404
              /\ order' = order
        /\ payment' = payment /\ session' = session /\ station' = station
        /\ menuitem' = menuitem /\ settings' = settings]_vars

\* an order that a checkout had paid is pending again
C17_Witness ==
    /\ resp.op = "update_order_status" /\ resp.code = 200
    /\ resp.req.status = "pending"
    /\ order[resp.req.order_id].status = "pending"
    /\ Len(order) = 1
    /\ payment # <<>>

\* C18: no step removes an Order or changes anything of it but its status:
\* its items (item_id, qty, unit_price, total_price of every line), subtotal,
\* tax, total, cafe_id, session_id and station_id stay as created.
C18_OrderImmutable ==
    [][\A i \in DOMAIN order :
          /\ i \in DOMAIN order'
          /\ DOMAIN order'[i] = DOMAIN order[i]
          /\ \A f \in DOMAIN order[i] \ {"status"} : order'[i][f] = order[i][f]]_vars

\* an order placed untaxed at the price of its menu item, then served by a
\* checkout, after settings with a tax rate were stored for its cafe and
\* further menu items were created
C18_Witness ==
    /\ order # <<>>
    /\ order[1].status = "served"
    /\ order[1].items = <<[qty |-> 1, item_id |-> 1, unit_price |-> 5000,
                           total_price |-> 5000]>>
    /\ order[1].subtotal = 5000 /\ order[1].tax = 0 /\ order[1].total = 5000
    /\ \E i \in DOMAIN settings :
          settings[i].cafe_id = order[1].cafe_id /\ settings[i].tax_rate = 625
    /\ Len(menuitem) = 2
    /\ payment # <<>>
    /\ resp.op = "checkout" /\ resp.req.order_id = 1

\* C19: no step removes a session or changes the status of a session that is
\* ended: once ended, a session is ended in every later state.
C19_EndedIsTerminal ==
    [][\A s \in DOMAIN session :
          session[s].status = "ended" =>
              (s \in DOMAIN session' /\ session'[s].status = "ended")]_vars

\* a request to end session 1 is between its two writes while session 1 is
\* ended and a later session is active on the station
C19_Witness ==
    \E p \in Procs :
        /\ proc[p].pc \in {"es_station", "co_station"}
        /\ proc[p].req.session_id = 1
        /\ session[1].status = "ended"
        /\ Len(session) = 2
        /\ session[2].status = "active"
        /\ session[2].station_id = session[1].station_id
        /\ station[session[1].station_id].current_session_id = 2

\* C20: startSession answers 404 for a well-formed id that names no station
\* and 409 exactly when the station's status is in-use; on a station with any
\* other status, offline and maintenance included, it answers 200, creates an
\* active session and sets the station in-use with that session as current;
\* endSession on a session that is not ended sets its station available.
C20_OnlyInUseGates ==
    [][/\ resp'.op = "start_session" =>
            LET id == resp'.req.station_id IN
            /\ (id > NoId /\ id \notin DOMAIN station) =>
                  (resp'.code = 404 /\ session' = session /\ station' = station)
            /\ id \in DOMAIN station =>
                  /\ resp'.code = 409 <=> station[id].status = "in-use"
                  /\ station[id].status # "in-use" =>
                        /\ resp'.code = 200
                        /\ session' = Append(session, [status |-> "active",
                                                       station_id |-> id,
                                                       ended_at |-> NoId])
                        /\ resp'.body.session_id = Len(session')
                        /\ station'[id].status = "in-use"
                        /\ station'[id].current_session_id = Len(session')
       /\ (/\ resp'.op = "end_session"
           /\ resp'.req.session_id \in DOMAIN session
           /\ session[resp'.req.session_id].status # "ended") =>
            LET st == session[resp'.req.session_id].station_id IN
            /\ resp'.code = 200
            /\ station'[st].status = "available"
            /\ station'[st].current_session_id = NoId]_vars

\* the first session of a station that was never available has been ended:
\* it was started out of service, and the station is available now
C20_Witness ==
    /\ resp.op = "end_session" /\ resp.code = 200
    /\ Len(session) = 1
    /\ session[1].status = "ended"
    /\ resp.req.session_id = 1
    /\ station[session[1].station_id].status = "available"
    /\ station[session[1].station_id].current_session_id = NoId
====
